---- MODULE Spec2Model ----
(***************************************************************************)
(* Model of backend/chatbot.py: the question/answer generator that tries   *)
(* a LlamaCpp backend, then a GPT4All backend, and finally an offline      *)
(* heuristic (mock_generate), with the JSON recovery of safe_json_parse.   *)
(*                                                                         *)
(* A Python str is a sequence of pieces (one-character strings, or a       *)
(* literal fragment of an f-string); a Python value is a record tagged by  *)
(* its type.  Raw model output is written over a small alphabet in which   *)
(* "a" and "b" each stand for one complete JSON object literal with the    *)
(* keys question/answer/text, "x" for a character of prose that is not     *)
(* JSON, and " " for JSON whitespace.                                      *)
(***************************************************************************)
EXTENDS Integers, Sequences, FiniteSets, TLC

VARIABLES
    notes,                 \* argument notes
    num_questions,         \* argument num_questions
    llamacpp_model_path,   \* argument llamacpp_model_path
    gpt4all_model_path,    \* argument gpt4all_model_path
    pc,                    \* position in the code
    raw,                   \* the local raw of the backend call that returned
    result,                \* the value returned to the caller
    retline,               \* source line of the return that produced result
    raised,                \* the exception that reached the caller, or "none"
    stdout,                \* the lines printed so far
    attempts               \* history: how each backend call ended

vars == <<notes, num_questions, llamacpp_model_path, gpt4all_model_path,
          pc, raw, result, retline, raised, stdout, attempts>>

----------------------------------------------------------------------------
(* Bounds of the model *)

MaxNotesLen == 4

MaxQuestions == 3

MaxRawLen == 5

MaxEngineLen == 3

(* s[:40] and s[:80] in mock_generate *)
QuestionPrefixLen == 40

AnswerPrefixLen == 80

----------------------------------------------------------------------------
(* Python values *)

None == [type |-> "NoneType"]

Str(cs) == [type |-> "str", chars |-> cs]

List(xs) == [type |-> "list", items |-> xs]

Dict(q, a, t) == [type |-> "dict", question |-> q, answer |-> a, text |-> t]

Min(a, b) == IF a <= b THEN a ELSE b

Strings(chars, n) == UNION {[1..k -> chars] : k \in 0..n}

(* s[:n] for n >= 0 *)
Prefix(s, n) == SubSeq(s, 1, Min(n, Len(s)))

(* s[i:j] for 0 <= i <= j, Python's 0-based half-open slice *)
Slice(s, i, j) == SubSeq(s, i + 1, Min(j, Len(s)))

----------------------------------------------------------------------------
(* json.loads, as safe_json_parse uses it *)

JsonWhitespace == {" "}

ObjectTokens == {"a", "b"}

RawChars == {"[", "]", ",", "a", "b", "x", " "}

(* the dict that the object literal written "a" (or "b") decodes to *)
ObjectOf(c) == Dict(<<"Q", c>>, <<"A", c>>, <<"T", c>>)

Returned(v, j) == [ok |-> TRUE, val |-> v, end |-> j]

Failed == [ok |-> FALSE, val |-> None, end |-> 0]

RECURSIVE SkipWs(_, _)
SkipWs(s, i) ==
    IF i <= Len(s) /\ s[i] \in JsonWhitespace THEN SkipWs(s, i + 1) ELSE i

RECURSIVE scan_once(_, _), ArrayItems(_, _, _)
(* one JSON value starting at position idx (1-based) *)
scan_once(s, idx) ==
    IF idx > Len(s) THEN Failed
    ELSE IF s[idx] \in ObjectTokens THEN Returned(ObjectOf(s[idx]), idx + 1)
    ELSE IF s[idx] = "["
         THEN LET j == SkipWs(s, idx + 1) IN
              IF j <= Len(s) /\ s[j] = "]"
              THEN Returned(List(<<>>), j + 1)
              ELSE ArrayItems(s, j, <<>>)
    ELSE Failed

(* the elements of an array, the first of them expected at idx *)
ArrayItems(s, idx, acc) ==
    LET v == scan_once(s, idx) IN
    IF ~v.ok THEN Failed
    ELSE LET j == SkipWs(s, v.end) IN
         IF j > Len(s) THEN Failed
         ELSE IF s[j] = "]" THEN Returned(List(Append(acc, v.val)), j + 1)
         ELSE IF s[j] = ","
              THEN ArrayItems(s, SkipWs(s, j + 1), Append(acc, v.val))
         ELSE Failed

Value(v) == [exc |-> "none", val |-> v]

Raise(e) == [exc |-> e, val |-> None]

(* json.loads(v): TypeError unless v is a str; JSONDecodeError unless the   *)
(* whole of v, whitespace aside, is one JSON value                          *)
json_loads(v) ==
    IF v.type # "str" THEN Raise("TypeError")
    ELSE LET s == v.chars
             r == scan_once(s, SkipWs(s, 1))
         IN  IF ~r.ok THEN Raise("JSONDecodeError")
             ELSE IF SkipWs(s, r.end) <= Len(s) THEN Raise("JSONDecodeError")
             ELSE Value(r.val)

----------------------------------------------------------------------------
(* safe_json_parse *)

RECURSIVE FindFrom(_, _, _)
FindFrom(s, c, i) ==
    IF i > Len(s) THEN -1
    ELSE IF s[i] = c THEN i - 1
    ELSE FindFrom(s, c, i + 1)

(* s.find(c): 0-based index of the first c, or -1 *)
find(s, c) == FindFrom(s, c, 1)

RECURSIVE RFindFrom(_, _, _)
RFindFrom(s, c, i) ==
    IF i < 1 THEN -1
    ELSE IF s[i] = c THEN i - 1
    ELSE RFindFrom(s, c, i - 1)

(* a scan for the closing bracket that stops at the first one *)
rfind_first(s, c) == FindFrom(s, c, 1)

(* s.rfind(c): 0-based index of the last c, or -1 *)
rfind(s, c) == RFindFrom(s, c, Len(s))

WarningLine == [msg |-> "Warning: Could not parse JSON. Returning empty list.", arg |-> ""]

(* what a call leaves behind: the exception it raised or the value it      *)
(* returned, the source line of the return, and the lines it printed       *)
ParseReturn(v, line) == [exc |-> "none", val |-> v, line |-> line, out |-> <<>>]

ParseEmpty == [exc |-> "none", val |-> List(<<>>), line |-> 68, out |-> <<WarningLine>>]

ParseRaise(e) == [exc |-> e, val |-> None, line |-> 0, out |-> <<>>]

(* the recovery of lines 59-68, entered on a JSONDecodeError *)
BracketScan(s) ==
    LET start == find(s, "[")
        end == rfind(s, "]")
    IN  IF start # -1 /\ end # -1 /\ end > start
        THEN LET r2 == json_loads(Str(Slice(s, start, end + 1))) IN
             IF r2.exc = "none" THEN ParseReturn(r2.val, 64) ELSE ParseEmpty
        ELSE ParseEmpty

(* the inner except clause left out: the second failure propagates *)
safe_json_parse_inner_uncaught(rawv) ==
    LET r == json_loads(rawv) IN
    IF r.exc = "none" THEN ParseReturn(r.val, 57)
    ELSE IF r.exc # "JSONDecodeError" THEN ParseRaise(r.exc)
    ELSE LET s == rawv.chars
             start == find(s, "[")
             end == rfind(s, "]")
         IN  IF start # -1 /\ end # -1 /\ end > start
             THEN LET r2 == json_loads(Str(Slice(s, start, end + 1))) IN
                  IF r2.exc = "none" THEN ParseReturn(r2.val, 64)
                  ELSE ParseRaise(r2.exc)
             ELSE ParseEmpty

(* the bracket scan tried before the strict parse *)
safe_json_parse_bracket_first(rawv) ==
    IF rawv.type # "str" THEN ParseRaise("TypeError")
    ELSE LET b == BracketScan(rawv.chars)
             r == json_loads(rawv)
         IN  IF b.line = 64 THEN b
             ELSE IF r.exc = "none" THEN ParseReturn(r.val, 57)
             ELSE ParseEmpty

(* the final "return []" left out: the function falls off its end *)
safe_json_parse_no_return(rawv) ==
    LET r == json_loads(rawv) IN
    IF r.exc = "none" THEN ParseReturn(r.val, 57)
    ELSE IF r.exc # "JSONDecodeError" THEN ParseRaise(r.exc)
    ELSE LET b == BracketScan(rawv.chars) IN
         IF b.line = 64 THEN b
         ELSE [exc |-> "none", val |-> None, line |-> 68, out |-> <<WarningLine>>]

safe_json_parse(rawv) ==
    LET r == json_loads(rawv) IN
    IF r.exc = "none" THEN ParseReturn(r.val, 57)
    ELSE IF r.exc # "JSONDecodeError" THEN ParseRaise(r.exc)
    ELSE BracketScan(rawv.chars)

----------------------------------------------------------------------------
(* mock_generate *)

NotesChars == {"A", "B", ".", "\n", " "}

(* the character class [\n\.] of the split pattern *)
Separators == {"\n", "."}

(* what str.strip() removes *)
PyWhitespace == {" ", "\t", "\n", "\r"}

RECURSIVE SkipSeparators(_, _)
SkipSeparators(s, i) ==
    IF i <= Len(s) /\ s[i] \in Separators THEN SkipSeparators(s, i + 1) ELSE i

RECURSIVE SplitFrom(_, _, _)
SplitFrom(s, i, cur) ==
    IF i > Len(s) THEN <<cur>>
    ELSE IF s[i] \in Separators
         THEN <<cur>> \o SplitFrom(s, SkipSeparators(s, i), <<>>)
    ELSE SplitFrom(s, i + 1, Append(cur, s[i]))

(* re.split(r'[\n\.]+', s): the pieces between maximal runs of separators, *)
(* the empty pieces at either end included                                 *)
re_split(s) == SplitFrom(s, 1, <<>>)

RECURSIVE LStrip(_)
LStrip(s) ==
    IF Len(s) > 0 /\ Head(s) \in PyWhitespace THEN LStrip(Tail(s)) ELSE s

RECURSIVE RStrip(_)
RStrip(s) ==
    IF Len(s) > 0 /\ s[Len(s)] \in PyWhitespace
    THEN RStrip(SubSeq(s, 1, Len(s) - 1)) ELSE s

(* s.strip() *)
strip(s) == LStrip(RStrip(s))

RECURSIVE StripNonEmpty(_)
StripNonEmpty(pieces) ==
    IF pieces = <<>> THEN <<>>
    ELSE LET t == strip(Head(pieces)) IN
         (IF Len(t) > 0 THEN <<t>> ELSE <<>>) \o StripNonEmpty(Tail(pieces))

(* line 73: [s.strip() for s in re.split(...) if s.strip()] *)
Sentences(s) == StripNonEmpty(re_split(s))

(* lines 76-78: the record made from sentence s *)
SentenceRecord(s) ==
    Dict(<<"What is the main idea of: '">> \o Prefix(s, QuestionPrefixLen) \o <<"...'">>,
         <<"The main idea is that ">> \o Prefix(s, AnswerPrefixLen) \o <<".">>,
         s)

(* lines 80-84: the record appended while the result is too short *)
PaddingRecord(sentences) ==
    Dict(<<"Summarize a key idea from the notes.">>,
         <<"This section explains one of the main concepts.">>,
         IF Len(sentences) > 0 THEN sentences[1] ELSE <<>>)

(* padding that quotes the last sentence instead of the first *)
PaddingRecordLast(sentences) ==
    Dict(<<"Summarize a key idea from the notes.">>,
         <<"This section explains one of the main concepts.">>,
         IF Len(sentences) > 0 THEN sentences[Len(sentences)] ELSE <<>>)

RECURSIVE PadLoop(_, _, _)
PadLoop(results, n, pad) ==
    IF Len(results) < n THEN PadLoop(Append(results, pad), n, pad) ELSE results

(* the while loop of lines 79-84 left out *)
mock_generate_no_pad(s, n) ==
    LET sentences == Sentences(s)
        first == Prefix(sentences, n)
    IN  List([i \in 1..Len(first) |-> SentenceRecord(first[i])])

(* the padding taken from the last sentence *)
mock_generate_pad_last(s, n) ==
    LET sentences == Sentences(s)
        first == Prefix(sentences, n)
        results == [i \in 1..Len(first) |-> SentenceRecord(first[i])]
    IN  List(PadLoop(results, n, PaddingRecordLast(sentences)))

mock_generate(s, n) ==
    LET sentences == Sentences(s)
        first == Prefix(sentences, n)
        results == [i \in 1..Len(first) |-> SentenceRecord(first[i])]
    IN  List(PadLoop(results, n, PaddingRecord(sentences)))

----------------------------------------------------------------------------
(* The requests, and what a backend may do *)

(* default of the parameter num_questions *)
DefaultNumQuestions == 6

Unset == [type |-> "unset"]

NoPath == None

EmptyPath == Str(<<>>)

ModelPath == Str(<<"m">>)

ModelPaths == {NoPath, EmptyPath, ModelPath}

RequestNotes == {<<>>, <<".">>, <<"A">>, <<"A", ".", "B">>}

EngineChars == {"[", "]", "a", "x"}

EngineTexts == {Str(s) : s \in Strings(EngineChars, MaxEngineLen)}

(* what the engine object hands back: a str, a list of candidates, or None *)
EngineValues ==
    EngineTexts \cup {None, List(<<>>)} \cup {List(<<v>>) : v \in EngineTexts}

(* the import or the constructor: succeeds, or raises *)
LoadOutcomes == {"none", "ImportError", "ValueError"}

(* the call of the engine: raises, or returns a value *)
GenerateOutcomes == {Raise("RuntimeError")} \cup {Value(v) : v \in EngineValues}

(* an except clause that names the backend's own errors only *)
ExceptBackendErrors(e) == e \in {"ImportError", "ValueError", "RuntimeError"}

(* "except Exception": every exception modelled here is an Exception *)
ExceptException(e) ==
    e \in {"ImportError", "ValueError", "RuntimeError", "TypeError",
           "IndexError", "JSONDecodeError"}

(* a test against None instead of truthiness *)
IsNotNone(v) == v # None

(* "if llamacpp_model_path:" -- None and the empty str are false *)
Truthy(v) == v.type = "str" /\ Len(v.chars) > 0

Line(m, a) == [msg |-> m, arg |-> a]

Attempt(b, stage, e) == [backend |-> b, stage |-> stage, exc |-> e]

----------------------------------------------------------------------------
(* generate_qa_from_notes *)

Init ==
    /\ notes \in RequestNotes
    /\ num_questions \in 1..MaxQuestions
    /\ llamacpp_model_path \in ModelPaths
    /\ gpt4all_model_path \in ModelPaths
    /\ pc = "line94"
    /\ raw = Unset
    /\ result = Unset
    /\ retline = 0
    /\ raised = "none"
    /\ stdout = <<>>
    /\ attempts = <<>>

args == <<notes, num_questions, llamacpp_model_path, gpt4all_model_path>>

(* an exception e inside the try block of backend b: the except clause     *)
(* prints and control goes on at line next; otherwise e reaches the caller *)
BackendRaised(b, stage, e, next) ==
    /\ attempts' = Append(attempts, Attempt(b, stage, e))
    /\ IF ExceptException(e)
       THEN /\ stdout' = Append(stdout, Line(b \o " failed:", e))
            /\ pc' = next
            /\ raised' = raised
       ELSE /\ stdout' = stdout
            /\ pc' = "raised"
            /\ raised' = e
    /\ UNCHANGED <<args, raw, result, retline>>

(* "return safe_json_parse(raw)" inside the try block of backend b *)
BackendParse(b, v, next) ==
    LET p == safe_json_parse(v) IN
    IF p.exc # "none" THEN BackendRaised(b, "parse", p.exc, next)
    ELSE /\ raw' = v
         /\ result' = p.val
         /\ retline' = p.line
         /\ stdout' = stdout \o p.out
         /\ attempts' = Append(attempts, Attempt(b, "returned", "none"))
         /\ pc' = "done"
         /\ UNCHANGED <<args, raised>>

(* line 94 *)
CheckLlamaCpp ==
    /\ pc = "line94"
    /\ IF Truthy(llamacpp_model_path)
       THEN /\ stdout' = Append(stdout, Line("Trying LlamaCpp model...", ""))
            /\ pc' = "llamacpp_load"
       ELSE /\ stdout' = stdout
            /\ pc' = "line100"
    /\ UNCHANGED <<args, raw, result, retline, raised, attempts>>

(* lines 38-39 *)
LlamaCppLoad ==
    /\ pc = "llamacpp_load"
    /\ \E e \in LoadOutcomes :
          IF e = "none"
          THEN /\ pc' = "llamacpp_generate"
               /\ UNCHANGED <<args, raw, result, retline, raised, stdout, attempts>>
          ELSE BackendRaised("LlamaCpp", "load", e, "line100")

(* lines 40-42 *)
LlamaCppGenerate ==
    /\ pc = "llamacpp_generate"
    /\ \E o \in GenerateOutcomes :
          IF o.exc # "none"
          THEN BackendRaised("LlamaCpp", "generate", o.exc, "line100")
          ELSE BackendParse("LlamaCpp", o.val, "line100")

(* line 100 *)
CheckGPT4All ==
    /\ pc = "line100"
    /\ IF Truthy(gpt4all_model_path)
       THEN /\ stdout' = Append(stdout, Line("Trying GPT4All model...", ""))
            /\ pc' = "gpt4all_load"
       ELSE /\ stdout' = stdout
            /\ pc' = "line106"
    /\ UNCHANGED <<args, raw, result, retline, raised, attempts>>

(* lines 45-46 *)
GPT4AllLoad ==
    /\ pc = "gpt4all_load"
    /\ \E e \in LoadOutcomes :
          IF e = "none"
          THEN /\ pc' = "gpt4all_generate"
               /\ UNCHANGED <<args, raw, result, retline, raised, stdout, attempts>>
          ELSE BackendRaised("GPT4All", "load", e, "line106")

(* lines 47-51 *)
GPT4AllGenerate ==
    /\ pc = "gpt4all_generate"
    /\ \E o \in GenerateOutcomes :
          IF o.exc # "none"
          THEN BackendRaised("GPT4All", "generate", o.exc, "line106")
          ELSE IF o.val.type \in {"list", "tuple"}
               THEN IF Len(o.val.items) = 0
                    THEN BackendRaised("GPT4All", "normalize", "IndexError", "line106")
                    ELSE BackendParse("GPT4All", o.val.items[1], "line106")
               ELSE BackendParse("GPT4All", o.val, "line106")

(* lines 106-107 *)
UseMockGenerator ==
    /\ pc = "line106"
    /\ stdout' = Append(stdout, Line("Using mock generator (no model found).", ""))
    /\ result' = mock_generate(notes, num_questions)
    /\ retline' = 85
    /\ pc' = "done"
    /\ UNCHANGED <<args, raw, raised, attempts>>

Next ==
    \/ CheckLlamaCpp
    \/ LlamaCppLoad
    \/ LlamaCppGenerate
    \/ CheckGPT4All
    \/ GPT4AllLoad
    \/ GPT4AllGenerate
    \/ UseMockGenerator

Spec == Init /\ [][Next]_vars

----------------------------------------------------------------------------
(* safe_json_parse called on its own, on every raw text up to MaxRawLen *)

InitParse ==
    /\ notes = <<>>
    /\ num_questions = DefaultNumQuestions
    /\ llamacpp_model_path = NoPath
    /\ gpt4all_model_path = NoPath
    /\ pc = "safe_json_parse"
    /\ raw \in {Str(s) : s \in Strings(RawChars, MaxRawLen)}
    /\ result = Unset
    /\ retline = 0
    /\ raised = "none"
    /\ stdout = <<>>
    /\ attempts = <<>>

CallSafeJsonParse ==
    /\ pc = "safe_json_parse"
    /\ LET p == safe_json_parse(raw) IN
          /\ result' = IF p.exc = "none" THEN p.val ELSE Unset
          /\ retline' = p.line
          /\ raised' = p.exc
          /\ stdout' = stdout \o p.out
          /\ pc' = IF p.exc = "none" THEN "done" ELSE "raised"
    /\ UNCHANGED <<args, raw, attempts>>

NextParse == CallSafeJsonParse

SpecParse == InitParse /\ [][NextParse]_vars

----------------------------------------------------------------------------
(* mock_generate called on its own, on every notes text up to MaxNotesLen *)

InitMock ==
    /\ notes \in Strings(NotesChars, MaxNotesLen)
    /\ num_questions \in 1..MaxQuestions
    /\ llamacpp_model_path = NoPath
    /\ gpt4all_model_path = NoPath
    /\ pc = "mock_generate"
    /\ raw = Unset
    /\ result = Unset
    /\ retline = 0
    /\ raised = "none"
    /\ stdout = <<>>
    /\ attempts = <<>>

CallMockGenerate ==
    /\ pc = "mock_generate"
    /\ result' = mock_generate(notes, num_questions)
    /\ retline' = 85
    /\ pc' = "done"
    /\ UNCHANGED <<args, raw, raised, stdout, attempts>>

NextMock == CallMockGenerate

SpecMock == InitMock /\ [][NextMock]_vars

----------------------------------------------------------------------------
(* Vocabulary of the properties, stated without the code's own helpers *)

Backends == {"LlamaCpp", "GPT4All"}

PathOf(b) == IF b = "LlamaCpp" THEN llamacpp_model_path ELSE gpt4all_model_path

(* a backend is configured when a model location was given *)
Configured(b) == PathOf(b) \notin {NoPath, EmptyPath}

Printed(m) == \E i \in 1..Len(stdout) : stdout[i].msg = m

TryingAt(b) == {i \in 1..Len(stdout) : stdout[i].msg = "Trying " \o b \o " model..."}

EndedAt(b) == {i \in 1..Len(attempts) : attempts[i].backend = b}

AttemptRaised(b) == \E i \in EndedAt(b) : attempts[i].exc # "none"

AttemptReturned(b) == \E i \in EndedAt(b) : attempts[i].exc = "none"

MockInvoked == Printed("Using mock generator (no model found).")

Finished == pc = "done"

IsQASequence(v) ==
    /\ v.type = "list"
    /\ \A i \in 1..Len(v.items) : v.items[i].type = "dict"

StrictOk(s) == json_loads(Str(s)).exc = "none"

HasOrderedBrackets(s) ==
    \E i, j \in 1..Len(s) : i < j /\ s[i] = "[" /\ s[j] = "]"

FirstOpen(s) == CHOOSE i \in 1..Len(s) : s[i] = "[" /\ \A k \in 1..(i - 1) : s[k] # "["

LastClose(s) == CHOOSE j \in 1..Len(s) : s[j] = "]" /\ \A k \in (j + 1)..Len(s) : s[k] # "]"

(* the text from the first "[" to the last "]", both included *)
Bracketed(s) == SubSeq(s, FirstOpen(s), LastClose(s))

(* both tiers of the parser fail on s *)
Unparsable(s) ==
    /\ ~StrictOk(s)
    /\ \/ ~HasOrderedBrackets(s)
       \/ LastClose(s) < FirstOpen(s)
       \/ ~StrictOk(Bracketed(s))

NoWs(s) == SelectSeq(s, LAMBDA c : c \notin JsonWhitespace)

(* s is "[", object literals separated by commas, "]" *)
IsObjectList(s) ==
    /\ Len(s) >= 2
    /\ s[1] = "["
    /\ s[Len(s)] = "]"
    /\ Len(s) = 2 \/ Len(s) % 2 = 1
    /\ \A i \in 2..(Len(s) - 1) :
          IF i % 2 = 0 THEN s[i] \in ObjectTokens ELSE s[i] = ","

(* the records that such a text lists *)
RecordsOf(s) == [k \in 1..((Len(s) - 1) \div 2) |-> ObjectOf(s[2 * k])]

(* the maximal runs of characters other than line breaks and periods *)
UnitStarts(s) ==
    {i \in 1..Len(s) : s[i] \notin {"\n", "."} /\ (i = 1 \/ s[i - 1] \in {"\n", "."})}

UnitEnd(s, i) ==
    CHOOSE j \in i..Len(s) :
        /\ \A k \in i..j : s[k] \notin {"\n", "."}
        /\ j = Len(s) \/ s[j + 1] \in {"\n", "."}

(* a run without the blanks around it; empty when it is all blanks *)
Trimmed(s, i, j) ==
    LET inked == {k \in i..j : s[k] # " "} IN
    IF inked = {} THEN <<>>
    ELSE SubSeq(s, CHOOSE k \in inked : \A m \in inked : k <= m,
                   CHOOSE k \in inked : \A m \in inked : k >= m)

RECURSIVE InOrder(_, _)
InOrder(s, starts) ==
    IF starts = {} THEN <<>>
    ELSE LET i == CHOOSE k \in starts : \A m \in starts : k <= m
             u == Trimmed(s, i, UnitEnd(s, i))
         IN  (IF u = <<>> THEN <<>> ELSE <<u>>) \o InOrder(s, starts \ {i})

(* the sentence-like units of s, in their original order *)
Units(s) == InOrder(s, UnitStarts(s))

----------------------------------------------------------------------------
(* C1: every request terminates and returns a sequence of QA records, and  *)
(* no exception reaches the caller.                                        *)
C1_ReturnsQASequence ==
    /\ raised = "none"
    /\ pc # "raised"
    /\ Finished \/ ENABLED Next
    /\ Finished => IsQASequence(result)

(* C1, the part that the code keeps: the request always ends in a return,  *)
(* never in an exception.                                                  *)
C1_NeverRaises ==
    /\ raised = "none"
    /\ pc # "raised"
    /\ Finished \/ ENABLED Next
    /\ Finished => result # Unset

(* C2: when every backend is unconfigured or its attempt raised, the       *)
(* returned sequence has exactly num_questions records.                    *)
C2_HeuristicExactCount ==
    (Finished /\ \A b \in Backends : ~Configured(b) \/ AttemptRaised(b))
        => /\ IsQASequence(result)
           /\ Len(result.items) = num_questions

C2_Witness ==
    /\ Finished
    /\ Configured("LlamaCpp") /\ AttemptRaised("LlamaCpp")
    /\ Configured("GPT4All") /\ AttemptRaised("GPT4All")
    /\ Len(Units(notes)) < num_questions
    /\ Len(result.items) = num_questions

(* C3: when a backend's load and generate succeed and the text it yields   *)
(* is unparsable, the request returns the empty sequence: no later backend *)
(* is tried and the heuristic generator is not invoked.                    *)
C3_UnparsableIsFinal ==
    (Finished /\ raw.type = "str" /\ Unparsable(raw.chars))
        => /\ result = List(<<>>)
           /\ ~MockInvoked
           /\ retline # 85
           /\ attempts[Len(attempts)].stage = "returned"
           /\ \A i \in 1..(Len(attempts) - 1) : attempts[i].exc # "none"
           /\ AttemptReturned("LlamaCpp") => TryingAt("GPT4All") = {}

C3_Witness ==
    /\ Finished
    /\ AttemptReturned("LlamaCpp")
    /\ Configured("GPT4All")
    /\ raw = Str(<<"x", "[", "x">>)
    /\ result = List(<<>>)

(* C4: LlamaCpp is tried before GPT4All; GPT4All is tried only if it is    *)
(* configured and LlamaCpp was unconfigured or raised; each backend is     *)
(* tried at most once; a failure never aborts the request; the heuristic   *)
(* generator runs exactly when every configured backend's attempt raised.  *)
C4_FallbackChain ==
    /\ \A b \in Backends :
          /\ Cardinality(TryingAt(b)) <= 1
          /\ Cardinality(EndedAt(b)) <= 1
          /\ EndedAt(b) # {} => TryingAt(b) # {}
          /\ TryingAt(b) # {} => Configured(b)
    /\ \A i \in TryingAt("LlamaCpp") : \A j \in TryingAt("GPT4All") : i < j
    /\ TryingAt("GPT4All") # {}
          => ~Configured("LlamaCpp") \/ AttemptRaised("LlamaCpp")
    /\ raised = "none" /\ pc # "raised"
    /\ MockInvoked => Finished
    /\ Finished =>
          /\ \A b \in Backends : AttemptRaised(b) \/ AttemptReturned(b) \/ TryingAt(b) = {}
          /\ Configured("LlamaCpp") => TryingAt("LlamaCpp") # {}
          /\ (Configured("GPT4All") /\ ~AttemptReturned("LlamaCpp")) => TryingAt("GPT4All") # {}
          /\ MockInvoked <=> \A b \in Backends : ~Configured(b) \/ AttemptRaised(b)
          /\ MockInvoked <=> retline = 85

C4_Witness ==
    /\ Finished
    /\ Len(attempts) = 2
    /\ attempts[1] = Attempt("LlamaCpp", "generate", "RuntimeError")
    /\ attempts[2] = Attempt("GPT4All", "returned", "none")
    /\ ~MockInvoked

(* C5: safe_json_parse never raises on a str: it returns a value, and the  *)
(* empty list whenever the strict parse fails and there is no ordered      *)
(* bracket pair or the bracketed text fails to parse too.                  *)
C5_ParseNeverFails ==
    /\ raised = "none"
    /\ pc # "raised"
    /\ Finished => result # Unset
    /\ (Finished /\ Unparsable(raw.chars))
          => /\ result = List(<<>>)
             /\ stdout = <<WarningLine>>

C5_Witness ==
    /\ Finished
    /\ raw = Str(<<"[", "a", "]", "]">>)
    /\ Unparsable(raw.chars)
    /\ result = List(<<>>)

(* C6: when the strict parse of the whole text fails, the recovery parses  *)
(* the text from the first "[" to the last "]" inclusive; a valid list     *)
(* wrapped in prose is returned as the records between the brackets.       *)
C6_BracketScanRecovery ==
    (Finished /\ ~StrictOk(raw.chars) /\ HasOrderedBrackets(raw.chars)
        /\ FirstOpen(raw.chars) < LastClose(raw.chars))
        => LET inner == Bracketed(raw.chars) IN
           /\ StrictOk(inner) => /\ result = json_loads(Str(inner)).val
                                 /\ retline = 64
                                 /\ stdout = <<>>
           /\ IsObjectList(NoWs(inner)) => result = List(RecordsOf(NoWs(inner)))
           /\ ~StrictOk(inner) => result = List(<<>>)

C6_Witness ==
    /\ Finished
    /\ raw = Str(<<"x", "[", "a", "]", "x">>)
    /\ retline = 64
    /\ result = List(<<ObjectOf("a")>>)

(* C7: a text that is a valid JSON list of objects is returned as exactly  *)
(* the decoded records, in order, by the strict parse and not by the       *)
(* bracket scan.                                                           *)
C7_StrictParseExact ==
    (Finished /\ IsObjectList(NoWs(raw.chars)))
        => /\ result = List(RecordsOf(NoWs(raw.chars)))
           /\ retline = 57
           /\ stdout = <<>>

C7_Witness ==
    /\ Finished
    /\ raw = Str(<<"[", "a", ",", "b", "]">>)
    /\ result = List(<<ObjectOf("a"), ObjectOf("b")>>)

(* C8: mock_generate returns exactly num_questions records: the first      *)
(* min(k, n) carry units 1..min(k, n) as text, in order, and the rest are  *)
(* the fixed padding record whose text is the first unit, or empty if      *)
(* there is no unit.                                                       *)
C8_HeuristicRecords ==
    Finished =>
        LET units == Units(notes)
            k == Len(units)
            n == num_questions
        IN  /\ result.type = "list"
            /\ Len(result.items) = n
            /\ \A i \in 1..Min(k, n) :
                  /\ result.items[i].type = "dict"
                  /\ result.items[i].text = units[i]
            /\ \A i \in (Min(k, n) + 1)..n :
                  result.items[i] =
                      Dict(<<"Summarize a key idea from the notes.">>,
                           <<"This section explains one of the main concepts.">>,
                           IF k = 0 THEN <<>> ELSE units[1])

C8_Witness ==
    /\ Finished
    /\ notes = <<"A", ".", " ", "B">>
    /\ num_questions = 3
    /\ result.items[2].text = <<"B">>
    /\ result.items[3].text = <<"A">>

(* C9: every record of a returned sequence has a non-empty question and a  *)
(* non-empty answer, and its text is empty only if notes is empty.         *)
C9_RecordsWellFormed ==
    (Finished /\ result.type = "list")
        => \A i \in 1..Len(result.items) :
              result.items[i].type = "dict"
                  => /\ result.items[i].question # <<>>
                     /\ result.items[i].answer # <<>>
                     /\ result.items[i].text = <<>> => notes = <<>>

(* C10: an exception raised after the engine has returned (normalizing or  *)
(* parsing its value) is handled as a backend failure: it is printed, the  *)
(* chain goes on to the next configured backend or to the heuristic        *)
(* generator, and nothing reaches the caller.                              *)
C10_LateFailureFallsThrough ==
    \A i \in 1..Len(attempts) :
        attempts[i].stage \in {"normalize", "parse"}
            => /\ raised = "none"
               /\ pc # "raised"
               /\ \E j \in 1..Len(stdout) :
                     stdout[j] = Line(attempts[i].backend \o " failed:", attempts[i].exc)
               /\ attempts[i].backend = "LlamaCpp"
                     => /\ pc \in {"line100", "gpt4all_load", "gpt4all_generate", "line106", "done"}
                        /\ (Finished /\ Configured("GPT4All")) => EndedAt("GPT4All") # {}
                        /\ (Finished /\ ~Configured("GPT4All")) => MockInvoked
               /\ attempts[i].backend = "GPT4All"
                     => /\ pc \in {"line106", "done"}
                        /\ Finished => MockInvoked

C10_Witness ==
    /\ Finished
    /\ Len(attempts) = 2
    /\ attempts[1] = Attempt("LlamaCpp", "parse", "TypeError")
    /\ attempts[2] = Attempt("GPT4All", "normalize", "IndexError")
    /\ MockInvoked
    /\ IsQASequence(result)

====
